---- MODULE Spec2Model ----
(***************************************************************************)
(* Copy-trade bot: the orchestrator (copy_trade_bot/main.py) with its      *)
(* collaborators (risk/manager.py, signals/processor.py,                   *)
(* execution/engine.py, leaders/manager.py), the data client               *)
(* (data/client.py), the streamer (data/streaming.py), the configuration   *)
(* (config.py) and the retry utilities (utils/retry.py).                   *)
(*                                                                         *)
(* Two specifications drive the orchestrator.                              *)
(*   SpecStubs  the collaborators exactly as written: validate_signal,     *)
(*              can_execute_signal and check_limits return True,           *)
(*              execute_signal returns a successful result, nothing        *)
(*              raises.  The signals handed to the loop are the input.     *)
(*   Spec       the orchestrator against every outcome its call sites      *)
(*              handle: each awaited collaborator call may return either   *)
(*              value or raise where the callee has no handler of its own. *)
(*              The stubs' outcomes are among them.                        *)
(* SpecRetry drives retry_with_backoff and get_retry_delay.                *)
(* SpecData drives the DataClient: the operations decorated with           *)
(* retry_on_api_error, health_check, get_multiple_leaders_data and close,  *)
(* with the outcome of every provider request as input.                    *)
(* SpecLeaders drives LeaderManager and SignalProcessor.get_signals as     *)
(* written, with the calls and the leaders' observations as input.         *)
(* SpecStream drives DataStreamer (data/streaming.py): start() and its     *)
(* reconnect loop, stop() from another task, and the drops of the          *)
(* connection.  SpecConfig constructs a Config (config.py) from every      *)
(* combination of values around the ends of the validated ranges.          *)
(*                                                                         *)
(* Units: time in seconds; signal size is the notional of the order in     *)
(* percent of the follower's equity, as are the risk limits of Config.     *)
(***************************************************************************)
EXTENDS Integers, Sequences, FiniteSets, TLC

\* ---------------------------------------------------------------- bounds
MaxSignals == 2         \* longest list of signals the loop is handed in a tick
MaxStarts == 2          \* calls of start() by the operator
MaxAge == 6             \* oldest signal handed to the loop, in seconds
MaxLoss == 6            \* largest daily loss of the account, percent of equity
MaxFills == 2           \* the fill count of a signal id is recorded up to this
MaxRetries == 3         \* largest max_retries of a retry policy
MaxDelay == 20          \* largest max_delay of a retry policy, half seconds
MaxAttempt == 4         \* largest attempt number passed to get_retry_delay
MaxCalls == 2           \* DataClient operations in a run
MaxLeaders == 2         \* longest leader_addresses list
MaxConnects == 3        \* calls of connect() by the streamer in a run
RandSteps == 4          \* random.random() takes the values 0/RandSteps .. (RandSteps-1)/RandSteps

\* ------------------------------------------------------ program constants
max_total_exposure == 50        \* percent of equity
max_daily_loss == 5             \* percent of equity
follow_window_seconds == 5
leader_update_interval == 300   \* seconds

\* The signals of the model.  A signal id is derived from the event that
\* triggered the signal, so an id fixes the size; the same id may be seen again.
SignalIds == {"s1", "s2"}
Addresses == {"0xa", "0xb"}
SizeOf == [i \in SignalIds |-> IF i = "s1" THEN 20 ELSE 30]
LeaderOf == [i \in SignalIds |-> IF i = "s1" THEN "0xa" ELSE "0xb"]    \* Signal.leader_address

VARIABLES
    running,        \* CopyTradeBot.running
    pc,             \* position of the start() coroutine
    starts,         \* number of start() calls so far
    signals,        \* the list get_signals returned in this tick
    idx,            \* position of the for loop in signals (1-based)
    polled,         \* how the latest finished tick left check_limits: none, true, missed
    limit_hit,      \* check_limits has returned False since start() was called
    log,            \* outcome logged for each signal of this tick, in order
    fills,          \* per signal id: execute_signal calls that ended in success (SpecStubs)
    daily_loss,     \* the follower account's loss of the day, percent of equity
    conn,           \* storage and data client connections: none, open, closed
    since_rank,     \* seconds slept since update_rankings was last called, -1: not yet
    stop_requested, \* stop() has been called by the signal handler's task since start()
    no_source,      \* every probe of the health check of the latest start() failed
    policy,         \* the arguments of retry_with_backoff
    r_pc,           \* position of the wrapper: idle, call, sleep, returned, raised
    attempt,        \* the loop variable of the wrapper
    calls,          \* invocations of the wrapped function in this call
    sleeps,         \* the delays the wrapper has slept, in order
    last_exception, \* the exception the latest invocation raised, or NoError
    r_raised,       \* the exception the wrapper raised to its caller, or NoError
    grd,            \* the latest get_retry_delay call: arguments and result
    op,             \* the DataClient operation in progress, or "none"
    f_pc,           \* position in the operation's body: idle, local, public, sdk, done
    trace,          \* the provider requests of the operation in progress, in order
    data_health,    \* the latest result of DataClient.health_check
    ncalls,         \* DataClient operations completed so far
    prev_failed,    \* an earlier operation saw a request to the local node fail
    m_pc,           \* get_multiple_leaders_data: idle, await, returned, raised
    tasks,          \* its tasks, in creation order: address, outcome and the values fetched
    m_idx,          \* position of its second for loop in tasks (1-based)
    results,        \* its results dict
    sessions,       \* the clients ("local", "public") whose self.session is an open session
    client_closed,  \* a call of DataClient.close() has completed
    banned_leaders, \* Config.banned_leaders
    leaders,        \* LeaderManager.leaders: address -> status
    added,          \* the addresses add_leader has been called with
    active,         \* the latest result of get_active_leaders
    last_obs,       \* per leader, what the latest poll saw: same, changed, skipped
    emitted,        \* the latest result of SignalProcessor.get_signals
    s_pc,           \* where DataStreamer.start() is
    s_running,      \* DataStreamer.running
    websocket,      \* DataStreamer.websocket: "none", an "open" connection or a "dropped" one
    s_stopped,      \* a call of DataStreamer.stop() has completed
    connects,       \* calls of connect() so far
    waits,          \* the sleeps of start(), in seconds, in order
    stale_receive,  \* receive_messages was called on a dropped connection
    env,            \* the values Config(...) is constructed from
    config          \* the outcome of the construction

orch_vars == <<running, pc, starts, signals, idx, polled, limit_hit,
               log, fills, daily_loss, conn, since_rank, stop_requested, no_source>>

\* A Signal (types.py): id, size, and the age of its timestamp at the moment
\* the loop processes it: fresh, or MaxAge seconds old.
Signal == {[id |-> i, size |-> SizeOf[i], age |-> a] :
              i \in SignalIds, a \in {0, MaxAge}}

Min(a, b) == IF a <= b THEN a ELSE b

RECURSIVE SeqsUpTo(_, _)
SeqsUpTo(S, n) ==
    IF n = 0 THEN {<< >>}
    ELSE LET shorter == SeqsUpTo(S, n - 1)
         IN shorter \cup {Append(s, x) : s \in {t \in shorter : Len(t) = n - 1}, x \in S}

\* ------------------------------------------------------- utils/retry.py
retry_vars == <<policy, r_pc, attempt, calls, sleeps, last_exception, r_raised, grd>>
gather_vars == <<m_pc, tasks, m_idx, results>>
leader_vars == <<banned_leaders, leaders, added, active, last_obs, emitted>>
stream_vars == <<s_pc, s_running, websocket, s_stopped, connects, waits, stale_receive>>
config_vars == <<env, config>>
session_vars == <<sessions, client_closed>>
data_vars == <<op, f_pc, trace, data_health, ncalls, prev_failed, gather_vars, session_vars>>

NoError == [type |-> "none", status_code |-> 0, words |-> {}]

\* Exceptions the wrapped function raises: the class, the status_code
\* attribute (0: the exception has none) and the words of str(error).lower().
Errors == {
    [type |-> "RateLimitError", status_code |-> 0,   words |-> {"rate", "limit"}],
    [type |-> "TimeoutError",   status_code |-> 0,   words |-> {}],
    [type |-> "Exception",      status_code |-> 503, words |-> {"unavailable"}],
    [type |-> "Exception",      status_code |-> 0,   words |-> {"request", "timeout"}],
    [type |-> "Exception",      status_code |-> 400, words |-> {"invalid", "parameters"}],
    [type |-> "Exception",      status_code |-> 0,   words |-> {"insufficient", "margin"}],
    [type |-> "ValueError",     status_code |-> 0,   words |-> {"rejected"}] }

\* class RetryableError and its subclasses.
RetryableErrorClasses ==
    {"RetryableError", "NetworkError", "APIError", "RateLimitError", "TemporaryError"}

\* ConnectionError and TimeoutError are subclasses of OSError.
OSErrorClasses == {"OSError", "ConnectionError", "TimeoutError"}

is_retryable_error(error) ==
    IF error.type \in RetryableErrorClasses THEN TRUE
    ELSE IF error.type \in OSErrorClasses THEN TRUE
    ELSE IF error.status_code # 0 /\ error.status_code \in {429, 500, 502, 503, 504} THEN TRUE
    ELSE IF "timeout" \in error.words THEN TRUE
    ELSE IF "connection" \in error.words THEN TRUE
    ELSE FALSE

\* except exceptions as e: the classes the wrapper catches.  "Exception"
\* catches every error; "RetryableError" catches that class and its subclasses.
Catches(exceptions, error) ==
    \/ exceptions = "Exception"
    \/ exceptions = "RetryableError" /\ error.type \in RetryableErrorClasses

RECURSIVE Pow(_, _)
Pow(b, n) == IF n = 0 THEN 1 ELSE b * Pow(b, n - 1)

BackoffDelayShifted(base_delay, exponential_base, max_delay, k) ==
    Min(base_delay * Pow(exponential_base, k + 1), max_delay)

\* delay = min(base_delay * (exponential_base ** attempt), max_delay)
BackoffDelay(base_delay, exponential_base, max_delay, k) ==
    Min(base_delay * Pow(exponential_base, k), max_delay)

\* retry_on_api_error(): max_retries 3, base_delay 0.5 s, max_delay 10 s, every
\* Exception caught.  Delays are in units of half a second.
retry_on_api_error ==
    [max_retries |-> 3, base_delay |-> 1, max_delay |-> 20, exponential_base |-> 2,
     exceptions |-> "Exception"]

\* The argument lists of retry_with_backoff that the model explores.
Policies ==
    {retry_on_api_error} \cup
    [max_retries : (0 - 1)..MaxRetries, base_delay : {1, 2}, max_delay : {1, 3, MaxDelay},
     exponential_base : {1, 2, 3}, exceptions : {"Exception", "RetryableError"}]

NoGrd == [attempt |-> 0, jitter |-> FALSE, rnd |-> 0, delay |-> 0, called |-> FALSE]

RetryIdle ==
    /\ policy = retry_on_api_error
    /\ r_pc = "idle"
    /\ attempt = 0
    /\ calls = 0
    /\ sleeps = << >>
    /\ last_exception = NoError
    /\ r_raised = NoError
    /\ grd = NoGrd

RetryInit ==
    /\ policy \in Policies
    /\ r_pc = "idle"
    /\ attempt = 0
    /\ calls = 0
    /\ sleeps = << >>
    /\ last_exception = NoError
    /\ r_raised = NoError
    /\ grd = NoGrd

\* The wrapper is entered: for attempt in range(max_retries + 1).  An empty
\* range falls through to "raise last_exception" with last_exception None,
\* which raises a TypeError.
RetryEnter ==
    /\ r_pc = "idle"
    /\ IF policy.max_retries + 1 <= 0
       THEN /\ r_pc' = "raised"
            /\ r_raised' = [type |-> "TypeError", status_code |-> 0, words |-> {}]
       ELSE /\ r_pc' = "call"
            /\ r_raised' = r_raised
    /\ attempt' = 0
    /\ UNCHANGED <<policy, calls, sleeps, last_exception, grd, orch_vars>>

\* return await func(*args, **kwargs): the function returns.
RetryCallReturns ==
    /\ r_pc = "call"
    /\ calls' = calls + 1
    /\ r_pc' = "returned"
    /\ UNCHANGED <<policy, attempt, sleeps, last_exception, r_raised, grd, orch_vars>>

RetryCallRaisesOffByOne(e) ==
    /\ r_pc = "call"
    /\ calls' = calls + 1
    /\ IF ~Catches(policy.exceptions, e)
       THEN /\ r_pc' = "raised"
            /\ r_raised' = e
            /\ UNCHANGED <<last_exception, sleeps>>
       ELSE /\ last_exception' = e
            /\ IF attempt = policy.max_retries + 1
               THEN /\ r_pc' = "raised"
                    /\ r_raised' = e
                    /\ UNCHANGED sleeps
               ELSE /\ r_pc' = "sleep"
                    /\ sleeps' = Append(sleeps,
                          BackoffDelay(policy.base_delay, policy.exponential_base,
                                       policy.max_delay, attempt))
                    /\ UNCHANGED r_raised
    /\ UNCHANGED <<policy, attempt, grd, orch_vars>>

\* The function raises e: an exception outside `exceptions` propagates; at
\* attempt == max_retries the exception is re-raised; otherwise the wrapper
\* computes the delay, calls on_retry and sleeps.
RetryCallRaises(e) ==
    /\ r_pc = "call"
    /\ calls' = calls + 1
    /\ IF ~Catches(policy.exceptions, e)
       THEN /\ r_pc' = "raised"
            /\ r_raised' = e
            /\ UNCHANGED <<last_exception, sleeps>>
       ELSE /\ last_exception' = e
            /\ IF attempt = policy.max_retries
               THEN /\ r_pc' = "raised"
                    /\ r_raised' = e
                    /\ UNCHANGED sleeps
               ELSE /\ r_pc' = "sleep"
                    /\ sleeps' = Append(sleeps,
                          BackoffDelay(policy.base_delay, policy.exponential_base,
                                       policy.max_delay, attempt))
                    /\ UNCHANGED r_raised
    /\ UNCHANGED <<policy, attempt, grd, orch_vars>>

\* await asyncio.sleep(delay) is over: the next iteration of the for loop, or,
\* with the range exhausted, the trailing "raise last_exception".
RetryWake ==
    /\ r_pc = "sleep"
    /\ attempt' = attempt + 1
    /\ IF attempt + 1 < policy.max_retries + 1
       THEN r_pc' = "call" /\ r_raised' = r_raised
       ELSE r_pc' = "raised" /\ r_raised' = last_exception
    /\ UNCHANGED <<policy, calls, sleeps, last_exception, grd, orch_vars>>

\* get_retry_delay(k, base_delay, max_delay, exponential_base, jitter) with
\* random.random() = rnd / RandSteps.  The result is in units of
\* 1 / (4 * RandSteps) of the delay unit: delay + delay * 0.25 * random.
get_retry_delay(k, base_delay, max_delay, exponential_base, jitter, rnd) ==
    LET delay == BackoffDelay(base_delay, exponential_base, max_delay, k)
    IN IF jitter
       THEN delay * 4 * RandSteps + delay * rnd
       ELSE delay * 4 * RandSteps

GetRetryDelay(k, jitter, rnd) ==
    /\ r_pc = "idle"
    /\ grd' = [attempt |-> k, jitter |-> jitter, rnd |-> rnd, called |-> TRUE,
               delay |-> get_retry_delay(k, policy.base_delay, policy.max_delay,
                                         policy.exponential_base, jitter, rnd)]
    /\ UNCHANGED <<policy, r_pc, attempt, calls, sleeps, last_exception, r_raised,
                   orch_vars>>

\* The wrapper around a function whose outcome is open.
NextRetry ==
    \/ RetryEnter /\ UNCHANGED <<data_vars, leader_vars, stream_vars, config_vars>>
    \/ RetryCallReturns /\ UNCHANGED <<data_vars, leader_vars, stream_vars, config_vars>>
    \/ \E e \in Errors : RetryCallRaises(e) /\ UNCHANGED <<data_vars, leader_vars, stream_vars, config_vars>>
    \/ RetryWake /\ UNCHANGED <<data_vars, leader_vars, stream_vars, config_vars>>
    \/ \E k \in 0..MaxAttempt : \E jitter \in BOOLEAN : \E rnd \in 0..(RandSteps - 1) :
          GetRetryDelay(k, jitter, rnd) /\ UNCHANGED <<data_vars, leader_vars, stream_vars, config_vars>>

\* ------------------------------------------------------- data/client.py
\* Operations that try the local node and fall back to the public API, and
\* operations served by the Hyperliquid SDK Info client.
UserOps == {"get_user_state", "get_open_orders", "get_user_fills"}
SdkOps == {"get_all_mids", "get_l2_snapshot", "get_meta"}

NoHealth == [probed |-> FALSE, local_up |-> FALSE, public_up |-> FALSE,
             local_node |-> FALSE, public_api |-> FALSE, hyperliquid_sdk |-> FALSE]

NoResults == [a \in {} |-> 0]

DataInit ==
    /\ op = "none"
    /\ f_pc = "idle"
    /\ trace = << >>
    /\ data_health = NoHealth
    /\ ncalls = 0
    /\ prev_failed = FALSE
    /\ m_pc = "idle"
    /\ tasks = << >>
    /\ m_idx = 1
    /\ results = NoResults
    /\ sessions = {}
    /\ client_closed = FALSE

\* The dict DataClient.health_check returns.  local_up and public_up are what
\* LocalNodeClient.health_check and PublicAPIClient.health_check return: both
\* catch their exceptions and return False, so the awaits never raise and the
\* entries local_node and public_api are set to True.  hyperliquid_info.meta()
\* raises when the SDK request fails.
health_check(local_up, public_up, sdk_up) ==
    [local_node |-> TRUE, public_api |-> TRUE, hyperliquid_sdk |-> sdk_up]

\* The status CopyTradeBot.health_check returns: "No data sources available"
\* when no entry of data_health is true, an error when storage.health_check or
\* risk_manager.health_check raises (as written neither does).
health_status(h, storage_raises, risk_raises) ==
    IF ~(h.local_node \/ h.public_api \/ h.hyperliquid_sdk) \/ storage_raises \/ risk_raises
    THEN "unhealthy"
    ELSE "healthy"

\* A call of DataClient.health_check.
HealthCheck(local_up, public_up, sdk_up) ==
    /\ op = "none"
    /\ m_pc = "idle"
    /\ r_pc = "idle"
    /\ LET h == health_check(local_up, public_up, sdk_up)
       IN data_health' = [probed |-> TRUE, local_up |-> local_up, public_up |-> public_up,
                          local_node |-> h.local_node, public_api |-> h.public_api,
                          hyperliquid_sdk |-> h.hyperliquid_sdk]
    /\ sessions' = sessions \cup {"local", "public"}
    /\ UNCHANGED <<client_closed, op, f_pc, trace, ncalls, prev_failed, gather_vars, retry_vars, orch_vars>>

FirstProviderGated(o) ==
    IF o \in UserOps
    THEN IF prev_failed \/ (data_health.probed /\ ~data_health.local_up) THEN "public" ELSE "local"
    ELSE "sdk"

\* The provider the body of an operation asks first: "if self.local_client"
\* (set by _setup_clients) for the user operations, "if self.hyperliquid_info"
\* for the others.
FirstProvider(o) == IF o \in UserOps THEN "local" ELSE "sdk"

\* A decorated operation is called: the retry_on_api_error wrapper is entered.
FetchBegin(o) ==
    /\ op = "none"
    /\ m_pc = "idle"
    /\ ncalls < MaxCalls
    /\ policy = retry_on_api_error
    /\ RetryEnter
    /\ op' = o
    /\ f_pc' = FirstProvider(o)
    /\ trace' = << >>
    /\ UNCHANGED <<session_vars, data_health, ncalls, prev_failed, gather_vars>>

\* try: return await self.local_client.<operation>(...)
\* except Exception: logger.warning(...)
FetchLocal(ok) ==
    /\ op # "none"
    /\ r_pc = "call"
    /\ f_pc = "local"
    /\ trace' = Append(trace, [provider |-> "local", ok |-> ok, call |-> calls + 1])
    /\ IF ok
       THEN RetryCallReturns /\ f_pc' = "done"
       ELSE f_pc' = "public" /\ UNCHANGED <<retry_vars, orch_vars>>
    /\ sessions' = sessions \cup {"local"}
    /\ UNCHANGED <<client_closed, op, data_health, ncalls, prev_failed, gather_vars>>

\* if self.public_client: return await self.public_client.<operation>(...)
\* An exception leaves the body and reaches the wrapper.
FetchPublic(ok, e) ==
    /\ op # "none"
    /\ r_pc = "call"
    /\ f_pc = "public"
    /\ trace' = Append(trace, [provider |-> "public", ok |-> ok, call |-> calls + 1])
    /\ IF ok
       THEN RetryCallReturns /\ f_pc' = "done"
       ELSE RetryCallRaises(e) /\ f_pc' = FirstProvider(op)
    /\ sessions' = sessions \cup {"public"}
    /\ UNCHANGED <<client_closed, op, data_health, ncalls, prev_failed, gather_vars>>

\* if self.hyperliquid_info: return self.hyperliquid_info.<operation>(...)
\* An exception leaves the body and reaches the wrapper; the public API
\* fallback below the return is not reached.
FetchSdk(ok, e) ==
    /\ op # "none"
    /\ r_pc = "call"
    /\ f_pc = "sdk"
    /\ trace' = Append(trace, [provider |-> "sdk", ok |-> ok, call |-> calls + 1])
    /\ IF ok
       THEN RetryCallReturns /\ f_pc' = "done"
       ELSE RetryCallRaises(e) /\ f_pc' = FirstProvider(op)
    /\ UNCHANGED <<session_vars, op, data_health, ncalls, prev_failed, gather_vars>>

\* The wrapper's backoff sleep is over.
FetchWake ==
    /\ op # "none"
    /\ RetryWake
    /\ UNCHANGED data_vars

\* The operation has returned or raised to its caller; the wrapper's frame is
\* gone.
FetchEnd ==
    /\ op # "none"
    /\ r_pc \in {"returned", "raised"}
    /\ op' = "none"
    /\ f_pc' = "idle"
    /\ trace' = << >>
    /\ ncalls' = ncalls + 1
    /\ prev_failed' = (prev_failed \/
                       \E i \in 1..Len(trace) : trace[i].provider = "local" /\ ~trace[i].ok)
    /\ r_pc' = "idle"
    /\ attempt' = 0
    /\ calls' = 0
    /\ sleeps' = << >>
    /\ last_exception' = NoError
    /\ r_raised' = NoError
    /\ UNCHANGED <<session_vars, policy, grd, data_health, gather_vars, orch_vars>>

\* get_multiple_leaders_data(leader_addresses): one task per address is
\* created, then the tasks are awaited in creation order.
GatherBegin(leader_addresses) ==
    /\ op = "none"
    /\ m_pc = "idle"
    /\ ncalls < MaxCalls
    /\ m_pc' = "await"
    /\ tasks' = [i \in 1..Len(leader_addresses) |->
                    [address |-> leader_addresses[i], outcome |-> "pending", fetched |-> {}]]
    /\ m_idx' = 1
    /\ results' = NoResults
    /\ UNCHANGED <<session_vars, op, f_pc, trace, data_health, ncalls, prev_failed, retry_vars, orch_vars>>

\* The three fetches of get_leader_data, in the order of its awaits.
Parts == <<"user_state", "open_orders", "fills">>

get_leader_data_partial(i, ok) ==
    /\ m_pc = "await"
    /\ i \in 1..Len(tasks)
    /\ tasks[i].outcome = "pending"
    /\ LET part == Parts[Cardinality(tasks[i].fetched) + 1]
           got  == IF ok THEN tasks[i].fetched \cup {part} ELSE tasks[i].fetched
       IN tasks' = [tasks EXCEPT ![i] =
                       [address |-> tasks[i].address,
                        outcome |-> IF ok /\ Cardinality(got) < Len(Parts) THEN "pending" ELSE "ok",
                        fetched |-> got]]
    /\ UNCHANGED <<session_vars, op, f_pc, trace, data_health, ncalls, prev_failed, m_pc, m_idx,
                   results, retry_vars, orch_vars>>

\* A get_leader_data task takes its next step while the caller is suspended
\* in an await: the next of its three fetches returns (ok), or raises once
\* the retries of the decorated operation are spent.  The exception is logged
\* and raised again, so the task fails; after the third fetch the task
\* returns the dict of the three values.
get_leader_data(i, ok) ==
    /\ m_pc = "await"
    /\ i \in 1..Len(tasks)
    /\ tasks[i].outcome = "pending"
    /\ LET part == Parts[Cardinality(tasks[i].fetched) + 1]
           got  == IF ok THEN tasks[i].fetched \cup {part} ELSE tasks[i].fetched
       IN tasks' = [tasks EXCEPT ![i] =
                       [address |-> tasks[i].address,
                        outcome |-> IF ~ok THEN "fail"
                                    ELSE IF Cardinality(got) < Len(Parts) THEN "pending"
                                    ELSE "ok",
                        fetched |-> got]]
    /\ UNCHANGED <<session_vars, op, f_pc, trace, data_health, ncalls, prev_failed, m_pc, m_idx,
                   results, retry_vars, orch_vars>>

\* The dict the data task i returned: the leader, the task it comes from and
\* the values it holds.
LeaderData(i) == [leader |-> tasks[i].address, task |-> i, parts |-> tasks[i].fetched]

AwaitTaskNoCatch ==
    /\ m_pc = "await"
    /\ m_idx <= Len(tasks)
    /\ tasks[m_idx].outcome # "pending"
    /\ IF tasks[m_idx].outcome = "ok"
       THEN /\ results' = [a \in DOMAIN results \cup {tasks[m_idx].address} |->
                              IF a = tasks[m_idx].address THEN LeaderData(m_idx)
                              ELSE results[a]]
            /\ m_idx' = m_idx + 1
            /\ m_pc' = m_pc
       ELSE /\ m_pc' = "raised"
            /\ UNCHANGED <<results, m_idx>>
    /\ UNCHANGED <<session_vars, op, f_pc, trace, data_health, ncalls, prev_failed, tasks,
                   retry_vars, orch_vars>>

\* try: results[address] = await task
\* except Exception: logger.error("leader_data_failed")
AwaitTask ==
    /\ m_pc = "await"
    /\ m_idx <= Len(tasks)
    /\ tasks[m_idx].outcome # "pending"
    /\ results' = IF tasks[m_idx].outcome = "ok"
                  THEN [a \in DOMAIN results \cup {tasks[m_idx].address} |->
                           IF a = tasks[m_idx].address THEN LeaderData(m_idx)
                           ELSE results[a]]
                  ELSE results
    /\ m_idx' = m_idx + 1
    /\ UNCHANGED <<session_vars, op, f_pc, trace, data_health, ncalls, prev_failed, m_pc, tasks,
                   retry_vars, orch_vars>>

\* return results
GatherReturn ==
    /\ m_pc = "await"
    /\ m_idx > Len(tasks)
    /\ m_pc' = "returned"
    /\ UNCHANGED <<session_vars, op, f_pc, trace, data_health, ncalls, prev_failed, tasks, m_idx, results,
                   retry_vars, orch_vars>>

\* The caller has taken the result.
GatherEnd ==
    /\ m_pc \in {"returned", "raised"}
    /\ m_pc' = "idle"
    /\ tasks' = << >>
    /\ m_idx' = 1
    /\ results' = NoResults
    /\ ncalls' = ncalls + 1
    /\ UNCHANGED <<session_vars, op, f_pc, trace, data_health, prev_failed, retry_vars, orch_vars>>

\* DataClient.close(): LocalNodeClient.close() and PublicAPIClient.close()
\* close the session each client holds and set it to None.  The caller
\* (CopyTradeBot.stop) does not wait for the requests under way: close() runs
\* whenever the task of a decorated operation is suspended.
DataClose ==
    /\ sessions' = {}
    /\ client_closed' = TRUE
    /\ UNCHANGED <<op, f_pc, trace, data_health, ncalls, prev_failed, gather_vars,
                   retry_vars, orch_vars>>

NextData ==
    \/ \E l, p, k \in BOOLEAN : HealthCheck(l, p, k) /\ UNCHANGED <<leader_vars, stream_vars, config_vars>>
    \/ \E o \in UserOps \cup SdkOps : FetchBegin(o) /\ UNCHANGED <<leader_vars, stream_vars, config_vars>>
    \/ \E ok \in BOOLEAN : FetchLocal(ok) /\ UNCHANGED <<leader_vars, stream_vars, config_vars>>
    \/ \E ok \in BOOLEAN : \E e \in Errors : FetchPublic(ok, e) /\ UNCHANGED <<leader_vars, stream_vars, config_vars>>
    \/ \E ok \in BOOLEAN : \E e \in Errors : FetchSdk(ok, e) /\ UNCHANGED <<leader_vars, stream_vars, config_vars>>
    \/ FetchWake /\ UNCHANGED <<leader_vars, stream_vars, config_vars>>
    \/ FetchEnd /\ UNCHANGED <<leader_vars, stream_vars, config_vars>>
    \/ \E leader_addresses \in SeqsUpTo(Addresses, MaxLeaders) : GatherBegin(leader_addresses) /\ UNCHANGED <<leader_vars, stream_vars, config_vars>>
    \/ \E i \in 1..MaxLeaders : \E ok \in BOOLEAN : get_leader_data(i, ok) /\ UNCHANGED <<leader_vars, stream_vars, config_vars>>
    \/ AwaitTask /\ UNCHANGED <<leader_vars, stream_vars, config_vars>>
    \/ GatherReturn /\ UNCHANGED <<leader_vars, stream_vars, config_vars>>
    \/ GatherEnd /\ UNCHANGED <<leader_vars, stream_vars, config_vars>>
    \/ DataClose /\ UNCHANGED <<leader_vars, stream_vars, config_vars>>

\* ------------------------------------------------- signals and stubs
\* The lists of signals the loop can be handed: the input of the pipeline.
\* The list SignalProcessor.get_signals returns is one of them.
SignalLists == SeqsUpTo(Signal, MaxSignals)

\* ------------------------------------------- the collaborators as written
get_signals_every_leader ==
    <<[id |-> "s1", size |-> SizeOf["s1"], age |-> 0],
      [id |-> "s2", size |-> SizeOf["s2"], age |-> 0]>>

get_signals == << >>                                    \* processor.py: return []
validate_signal(sig) == TRUE                            \* processor.py
can_execute_signal(sig) == TRUE                         \* risk/manager.py
check_limits == TRUE                                    \* risk/manager.py
execute_signal(sig) == [success |-> TRUE, filled_size |-> sig.size]

ExecutionResults(sig) == {execute_signal(sig), [success |-> FALSE, filled_size |-> 0]}

\* ---------------------------------- leaders/manager.py, signals/processor.py
NoLeaders == [a \in {} |-> "none"]
NotCalled == [called |-> FALSE, value |-> {}]
Observations == {"same", "changed", "skipped"}

LeadersIdle ==
    /\ banned_leaders = {}
    /\ leaders = NoLeaders
    /\ added = {}
    /\ active = NotCalled
    /\ last_obs = [a \in Addresses |-> "skipped"]
    /\ emitted = NotCalled

\* Config.banned_leaders is any list of addresses; LeaderManager.__init__
\* sets leaders = {}.
LeadersInit ==
    /\ banned_leaders \in SUBSET Addresses
    /\ leaders = NoLeaders
    /\ added = {}
    /\ active = NotCalled
    /\ last_obs = [a \in Addresses |-> "skipped"]
    /\ emitted = NotCalled

\* update_rankings(): a TODO that logs.
update_rankings ==
    /\ UNCHANGED <<leader_vars, orch_vars, retry_vars, data_vars, stream_vars, config_vars>>

add_leader_inserts(address) ==
    /\ added' = added \cup {address}
    /\ leaders' = [a \in DOMAIN leaders \cup {address} |->
                      IF a = address THEN "active" ELSE leaders[a]]
    /\ UNCHANGED <<banned_leaders, active, last_obs, emitted,
                   orch_vars, retry_vars, data_vars, stream_vars, config_vars>>

\* add_leader(address): a TODO that logs; self.leaders is not written.
add_leader(address) ==
    /\ added' = added \cup {address}
    /\ UNCHANGED <<banned_leaders, leaders, active, last_obs, emitted,
                   orch_vars, retry_vars, data_vars, stream_vars, config_vars>>

\* remove_leader(address): a TODO that logs.
remove_leader(address) ==
    /\ UNCHANGED <<leader_vars, orch_vars, retry_vars, data_vars, stream_vars, config_vars>>

\* update_leader_metrics(address, metrics): a TODO that logs.
update_leader_metrics(address) ==
    /\ UNCHANGED <<leader_vars, orch_vars, retry_vars, data_vars, stream_vars, config_vars>>

\* get_active_leaders(): the leaders of self.leaders whose status is ACTIVE.
get_active_leaders ==
    /\ active' = [called |-> TRUE,
                  value |-> {a \in DOMAIN leaders : leaders[a] = "active"}]
    /\ UNCHANGED <<banned_leaders, leaders, added, last_obs, emitted,
                   orch_vars, retry_vars, data_vars, stream_vars, config_vars>>

\* SignalProcessor.get_signals() is called in a tick in which the poll of the
\* leaders saw obs: for each leader, the same positions and open orders as in
\* the poll before, changed ones, or no data.  get_signals reads none of it.
ProcessorGetSignals(obs) ==
    /\ last_obs' = obs
    /\ emitted' = [called |-> TRUE, value |-> get_signals]
    /\ UNCHANGED <<banned_leaders, leaders, added, active,
                   orch_vars, retry_vars, data_vars, stream_vars, config_vars>>

NextLeaders ==
    \/ update_rankings
    \/ \E address \in Addresses : add_leader(address)
    \/ \E address \in Addresses : remove_leader(address)
    \/ \E address \in Addresses : update_leader_metrics(address)
    \/ get_active_leaders
    \/ \E obs \in [Addresses -> Observations] : ProcessorGetSignals(obs)

\* ------------------------------------------------------------ orchestrator
OrchInit ==
    /\ running = FALSE
    /\ pc = "created"
    /\ starts = 0
    /\ signals = << >>
    /\ idx = 1
    /\ polled = "none"
    /\ limit_hit = FALSE
    /\ log = << >>
    /\ fills = [i \in SignalIds |-> 0]
    /\ daily_loss = 0
    /\ conn = "none"
    /\ since_rank = 0 - 1
    /\ stop_requested = FALSE
    /\ no_source = FALSE

\* stop(): returns at once when not running; otherwise clears running, stops
\* the components and closes the data client and the storage.
StopEffect ==
    IF running
    THEN running' = FALSE /\ conn' = "closed"
    ELSE UNCHANGED <<running, conn>>

\* start() is called, by main() or again by the operator once it has
\* returned: storage.initialize() has succeeded and start() is suspended in an
\* await of its prologue (the requests of health_check).
StartBegin ==
    /\ pc \in {"created", "returned"}
    /\ starts < MaxStarts
    /\ starts' = starts + 1
    /\ pc' = "starting"
    /\ conn' = "open"
    /\ polled' = "none"
    /\ limit_hit' = FALSE
    /\ since_rank' = 0 - 1
    /\ stop_requested' = FALSE
    /\ no_source' = FALSE
    /\ UNCHANGED <<running, signals, idx, log, fills, daily_loss, retry_vars, data_vars, leader_vars, stream_vars, config_vars>>

\* The rest of start() up to the main loop: health_check(), the components'
\* start(), running = True.  local_up, public_up and sdk_up are the outcomes
\* of the three probes of data_client.health_check(); health is "healthy",
\* "unhealthy" (the status health_check returned) or "raise" (a step after
\* storage.initialize() raised).
Start(health, local_up, public_up, sdk_up) ==
    /\ pc = "starting"
    /\ no_source' = ~(local_up \/ public_up \/ sdk_up)
    /\ IF health = "healthy"
       THEN running' = TRUE /\ pc' = "loop"
       ELSE running' = running /\ pc' = "finally"
    /\ UNCHANGED <<starts, signals, idx, polled, limit_hit, log, fills, daily_loss, conn,
                   since_rank, stop_requested, retry_vars, data_vars, leader_vars, stream_vars, config_vars>>

\* while self.running:
LoopTop ==
    /\ pc = "loop"
    /\ pc' = IF running THEN "rankings" ELSE "finally"
    /\ UNCHANGED <<running, starts, signals, idx, polled, limit_hit,
                   log, fills, daily_loss, conn, since_rank, stop_requested, no_source, retry_vars, data_vars, leader_vars, stream_vars, config_vars>>

\* await self.leader_manager.update_rankings(): catches its own exceptions.
UpdateRankings ==
    /\ pc = "rankings"
    /\ pc' = "get_signals"
    /\ since_rank' = 0
    /\ UNCHANGED <<running, starts, signals, idx, polled, limit_hit,
                   log, fills, daily_loss, conn, stop_requested, no_source, retry_vars, data_vars, leader_vars, stream_vars, config_vars>>

\* signals = await self.signal_processor.get_signals()
GetSignals(raised, sigs) ==
    /\ pc = "get_signals"
    /\ IF raised
       THEN pc' = "except" /\ UNCHANGED <<signals, idx, log>>
       ELSE pc' = "for" /\ signals' = sigs /\ idx' = 1 /\ log' = << >>
    /\ UNCHANGED <<running, starts, polled, limit_hit,
                   fills, daily_loss, conn, since_rank, stop_requested, no_source, retry_vars, data_vars, leader_vars, stream_vars, config_vars>>

CurReversed == signals[Len(signals) - idx + 1]

\* for signal in signals: the signal the loop is at.
Cur == signals[idx]

\* The outcome _process_signal logs for a signal, from what validate_signal,
\* can_execute_signal and execute_signal did.
Outcome(vraise, valid, rraise, allowed, result) ==
    IF vraise THEN "signal_processing_failed"
    ELSE IF ~valid THEN "invalid_signal"
    ELSE IF rraise THEN "signal_processing_failed"
    ELSE IF ~allowed THEN "signal_blocked_by_risk"
    ELSE IF result.success THEN "signal_executed"
    ELSE "signal_execution_failed"

\* Measure: the exposure of the signals executed with success, the sum of
\* their sizes.  The source keeps no such total.
RECURSIVE SumSizes(_)
SumSizes(ids) ==
    IF ids = {} THEN 0
    ELSE LET i == CHOOSE x \in ids : TRUE
         IN fills[i] * SizeOf[i] + SumSizes(ids \ {i})

Exposure == SumSizes(SignalIds)

Dispatched(outcome) == outcome \in {"signal_executed", "signal_execution_failed"}

ProcessSignalAborts(vraise, valid, rraise, allowed, result) ==
    /\ pc = "for"
    /\ idx <= Len(signals)
    /\ IF vraise \/ (valid /\ rraise)
       THEN pc' = "except" /\ UNCHANGED <<log, idx>>
       ELSE /\ log' = Append(log, [signal |-> Cur,
                                   outcome |-> Outcome(vraise, valid, rraise, allowed, result)])
            /\ idx' = idx + 1
            /\ pc' = pc
    /\ UNCHANGED <<running, starts, signals, polled, limit_hit,
                   daily_loss, conn, since_rank, stop_requested, no_source, retry_vars, data_vars, leader_vars, stream_vars, config_vars>>

\* One iteration of the for loop: await self._process_signal(signal).
ProcessSignal(vraise, valid, rraise, allowed, result) ==
    /\ pc = "for"
    /\ idx <= Len(signals)
    /\ log' = Append(log, [signal |-> Cur,
                           outcome |-> Outcome(vraise, valid, rraise, allowed, result)])
    /\ idx' = idx + 1
    /\ UNCHANGED <<running, pc, starts, signals, polled, limit_hit,
                   daily_loss, conn, since_rank, stop_requested, no_source, retry_vars, data_vars, leader_vars, stream_vars, config_vars>>

\* _process_signal against every outcome of the collaborators.
ProcessSignalAny ==
    /\ pc = "for"
    /\ idx <= Len(signals)
    /\ \E vr, v, rr, a \in BOOLEAN : \E res \in ExecutionResults(Cur) :
          ProcessSignal(vr, v, rr, a, res)
    /\ UNCHANGED fills

\* _process_signal with the collaborators as written; fills counts the
\* successful results per signal id.
ProcessSignalStubs ==
    /\ pc = "for"
    /\ idx <= Len(signals)
    /\ ProcessSignal(FALSE, validate_signal(Cur), FALSE, can_execute_signal(Cur),
                     execute_signal(Cur))
    /\ fills' = IF validate_signal(Cur) /\ can_execute_signal(Cur)
                    /\ execute_signal(Cur).success
                THEN [fills EXCEPT ![Cur.id] = Min(@ + 1, MaxFills)]
                ELSE fills

\* The for loop is exhausted: its variables are dead from here on.
EndFor ==
    /\ pc = "for"
    /\ idx > Len(signals)
    /\ pc' = "metrics"
    /\ signals' = << >> /\ idx' = 1 /\ log' = << >>
    /\ UNCHANGED <<running, starts, polled, limit_hit, fills,
                   daily_loss, conn, since_rank, stop_requested, no_source, retry_vars, data_vars, leader_vars, stream_vars, config_vars>>

\* await self._update_metrics(): catches its own exceptions.
UpdateMetrics ==
    /\ pc = "metrics"
    /\ pc' = "check_limits"
    /\ UNCHANGED <<running, starts, signals, idx, polled, limit_hit,
                   log, fills, daily_loss, conn, since_rank, stop_requested, no_source, retry_vars, data_vars, leader_vars, stream_vars, config_vars>>

CheckLimitsNoBreak(raised, ok) ==
    /\ pc = "check_limits"
    /\ pc' = IF raised THEN "except" ELSE "sleep1"
    /\ polled' = IF ~raised /\ ok THEN "true" ELSE polled
    /\ limit_hit' = IF ~raised /\ ~ok THEN TRUE ELSE limit_hit
    /\ UNCHANGED <<running, starts, signals, idx, log,
                   fills, daily_loss, conn, since_rank, stop_requested, no_source, retry_vars, data_vars, leader_vars, stream_vars, config_vars>>

\* if not await self.risk_manager.check_limits(): break
CheckLimits(raised, ok) ==
    /\ pc = "check_limits"
    /\ pc' = IF raised THEN "except" ELSE IF ok THEN "sleep1" ELSE "finally"
    /\ polled' = IF ~raised /\ ok THEN "true" ELSE polled
    /\ limit_hit' = IF ~raised /\ ~ok THEN TRUE ELSE limit_hit
    /\ UNCHANGED <<running, starts, signals, idx, log,
                   fills, daily_loss, conn, since_rank, stop_requested, no_source, retry_vars, data_vars, leader_vars, stream_vars, config_vars>>

\* await asyncio.sleep(1)
Sleep1 ==
    /\ pc = "sleep1"
    /\ pc' = "loop"
    /\ since_rank' = since_rank + 1
    /\ UNCHANGED <<running, starts, signals, idx, polled, limit_hit,
                   log, fills, daily_loss, conn, stop_requested, no_source, retry_vars, data_vars, leader_vars, stream_vars, config_vars>>

ExceptPropagates ==
    /\ pc = "except"
    /\ polled' = "missed"
    /\ pc' = "finally"
    /\ since_rank' = since_rank + 5
    /\ UNCHANGED <<running, starts, signals, idx, limit_hit, log, fills,
                   daily_loss, conn, stop_requested, no_source, retry_vars, data_vars, leader_vars, stream_vars, config_vars>>

\* except Exception: logger.error("main_loop_error"); await asyncio.sleep(5)
Except ==
    /\ pc = "except"
    /\ polled' = "missed"
    /\ pc' = "loop"
    /\ since_rank' = since_rank + 5
    /\ UNCHANGED <<running, starts, signals, idx, limit_hit, log, fills,
                   daily_loss, conn, stop_requested, no_source, retry_vars, data_vars, leader_vars, stream_vars, config_vars>>

\* finally: await self.stop()
Finally ==
    /\ pc = "finally"
    /\ StopEffect
    /\ pc' = "returned"
    /\ UNCHANGED <<starts, signals, idx, polled, limit_hit, log, fills,
                   daily_loss, since_rank, stop_requested, no_source, retry_vars, data_vars, leader_vars, stream_vars, config_vars>>

\* signal_handler: asyncio.create_task(bot.stop()).  The task runs when the
\* start() coroutine is suspended: in the awaits of its prologue, or in a
\* sleep of the main loop (the steps of a tick do not suspend).
SignalStop ==
    /\ pc \in {"starting", "sleep1", "except"}
    /\ running \/ ~stop_requested
    /\ stop_requested' = TRUE
    /\ StopEffect
    /\ UNCHANGED <<pc, starts, signals, idx, polled, limit_hit,
                   log, fills, daily_loss, since_rank, no_source, retry_vars, data_vars, leader_vars, stream_vars, config_vars>>

\* Environment: the market moves the follower account while the loop sleeps.
\* Nothing in the source reads the account's loss.
AccountLoss ==
    /\ pc = "sleep1"
    /\ daily_loss = 0
    /\ daily_loss' \in {max_daily_loss, MaxLoss}
    /\ UNCHANGED <<running, pc, starts, signals, idx, polled, limit_hit,
                   log, fills, conn, since_rank, stop_requested, no_source, retry_vars, data_vars, leader_vars, stream_vars, config_vars>>

\* The orchestrator against every outcome of its collaborators.
Next ==
    \/ StartBegin
    \/ \E h \in {"healthy", "unhealthy", "raise"} : \E l, p, k \in BOOLEAN : Start(h, l, p, k)
    \/ LoopTop
    \/ UpdateRankings
    \/ \E raised \in BOOLEAN : \E sigs \in SignalLists : GetSignals(raised, sigs)
    \/ ProcessSignalAny
    \/ EndFor
    \/ UpdateMetrics
    \/ \E raised, ok \in BOOLEAN : CheckLimits(raised, ok)
    \/ Sleep1
    \/ Except
    \/ Finally
    \/ SignalStop

\* The orchestrator with the collaborators as written.
NextStubs ==
    \/ StartBegin
    \/ \E l, p, k \in BOOLEAN : Start(health_status(health_check(l, p, k), FALSE, FALSE), l, p, k)
    \/ LoopTop
    \/ UpdateRankings
    \/ \E sigs \in SignalLists : GetSignals(FALSE, sigs)
    \/ ProcessSignalStubs
    \/ EndFor
    \/ UpdateMetrics
    \/ CheckLimits(FALSE, check_limits)
    \/ Sleep1
    \/ Finally
    \/ SignalStop
    \/ AccountLoss

\* ---------------------------------------------------- data/streaming.py
\* asyncio.sleep(5) before reconnecting and asyncio.sleep(30) after a
\* reconnect that failed.
reconnect_wait == 5
reconnect_failed_wait == 30

StreamIdle ==
    /\ s_pc = "idle"
    /\ s_running = FALSE
    /\ websocket = "none"
    /\ s_stopped = FALSE
    /\ connects = 0
    /\ waits = << >>
    /\ stale_receive = FALSE

\* start() is called: self.running = True, and start() is suspended in
\* await self.connect().
StreamStart ==
    /\ s_pc \in {"idle", "returned", "raised"}
    /\ connects < MaxConnects
    /\ s_running' = TRUE
    /\ s_stopped' = FALSE
    /\ s_pc' = "connect"
    /\ UNCHANGED <<websocket, connects, waits, stale_receive,
                   orch_vars, retry_vars, data_vars, leader_vars, config_vars>>

\* The first connect() ends: websockets.connect returned and self.websocket
\* is the new connection, or it raised; connect() raises again and the
\* exception leaves start(), which has no handler around this call.
StreamConnect(ok) ==
    /\ s_pc = "connect"
    /\ connects' = connects + 1
    /\ IF ok
       THEN websocket' = "open" /\ s_pc' = "while"
       ELSE websocket' = websocket /\ s_pc' = "raised"
    /\ UNCHANGED <<s_running, s_stopped, waits, stale_receive,
                   orch_vars, retry_vars, data_vars, leader_vars, config_vars>>

\* while self.running: await self.receive_messages().  receive_messages
\* raises RuntimeError when self.websocket is None, and iterates over
\* self.websocket otherwise.
StreamWhile ==
    /\ s_pc = "while"
    /\ IF ~s_running
       THEN s_pc' = "returned" /\ stale_receive' = stale_receive
       ELSE IF websocket = "none"
       THEN s_pc' = "except" /\ stale_receive' = stale_receive
       ELSE /\ s_pc' = "receive"
            /\ stale_receive' = (stale_receive \/ websocket = "dropped")
    /\ UNCHANGED <<s_running, websocket, s_stopped, connects, waits,
                   orch_vars, retry_vars, data_vars, leader_vars, config_vars>>

\* The connection drops: the peer or the network closes it.
Drop ==
    /\ websocket = "open"
    /\ websocket' = "dropped"
    /\ UNCHANGED <<s_pc, s_running, s_stopped, connects, waits, stale_receive,
                   orch_vars, retry_vars, data_vars, leader_vars, config_vars>>

\* The iteration over a connection that is closed ends: with
\* ConnectionClosed, which receive_messages catches and logs, or without an
\* exception.  receive_messages returns.
ReceiveReturns ==
    /\ s_pc = "receive"
    /\ websocket # "open"
    /\ s_pc' = "while"
    /\ UNCHANGED <<s_running, websocket, s_stopped, connects, waits, stale_receive,
                   orch_vars, retry_vars, data_vars, leader_vars, config_vars>>

\* The iteration raises an exception that is no ConnectionClosed:
\* receive_messages logs it and raises it again.
ReceiveRaises ==
    /\ s_pc = "receive"
    /\ s_pc' = "except"
    /\ UNCHANGED <<s_running, websocket, s_stopped, connects, waits, stale_receive,
                   orch_vars, retry_vars, data_vars, leader_vars, config_vars>>

\* except Exception: logger.error(...); if self.running: await asyncio.sleep(5)
StreamExcept ==
    /\ s_pc = "except"
    /\ IF s_running
       THEN s_pc' = "sleep" /\ waits' = Append(waits, reconnect_wait)
       ELSE s_pc' = "while" /\ waits' = waits
    /\ UNCHANGED <<s_running, websocket, s_stopped, connects, stale_receive,
                   orch_vars, retry_vars, data_vars, leader_vars, config_vars>>

\* The sleep is over: try: await self.connect(); except Exception:
\* logger.error(...); await asyncio.sleep(30).  self.running is not read
\* again before the connect.
Reconnect(ok) ==
    /\ s_pc = "sleep"
    /\ connects < MaxConnects
    /\ connects' = connects + 1
    /\ IF ok
       THEN websocket' = "open" /\ s_pc' = "while" /\ waits' = waits
       ELSE /\ websocket' = websocket
            /\ s_pc' = "sleep_failed"
            /\ waits' = Append(waits, reconnect_failed_wait)
    /\ UNCHANGED <<s_running, s_stopped, stale_receive,
                   orch_vars, retry_vars, data_vars, leader_vars, config_vars>>

\* The longer sleep is over: back to the loop test.
StreamWake ==
    /\ s_pc = "sleep_failed"
    /\ s_pc' = "while"
    /\ UNCHANGED <<s_running, websocket, s_stopped, connects, waits, stale_receive,
                   orch_vars, retry_vars, data_vars, leader_vars, config_vars>>

\* stop(), from another task while start() is suspended in an await or once
\* it has ended: self.running = False; disconnect() closes self.websocket if
\* there is one and sets it to None.
StreamStop ==
    /\ s_pc \in {"connect", "receive", "sleep", "sleep_failed", "returned", "raised"}
    /\ s_running' = FALSE
    /\ websocket' = "none"
    /\ s_stopped' = TRUE
    /\ UNCHANGED <<s_pc, connects, waits, stale_receive,
                   orch_vars, retry_vars, data_vars, leader_vars, config_vars>>

NextStream ==
    \/ StreamStart
    \/ \E ok \in BOOLEAN : StreamConnect(ok)
    \/ StreamWhile
    \/ Drop
    \/ ReceiveReturns
    \/ ReceiveRaises
    \/ StreamExcept
    \/ \E ok \in BOOLEAN : Reconnect(ok)
    \/ StreamWake
    \/ StreamStop

\* --------------------------------------------------------------- config.py
\* The fields of Config with a range validator.  The three percentages are
\* kept in hundredths (0.05 is 5); the other fields are integers.
ConfigFields == {"max_daily_loss", "max_position_size", "max_total_exposure",
                 "default_slippage_bps", "follow_window_seconds", "leader_update_interval",
                 "max_leaders_to_follow", "performance_lookback_days"}

\* The defaults of the fields.
ConfigDefaults ==
    [max_daily_loss |-> max_daily_loss, max_position_size |-> 10,
     max_total_exposure |-> max_total_exposure, default_slippage_bps |-> 50,
     follow_window_seconds |-> follow_window_seconds,
     leader_update_interval |-> leader_update_interval,
     max_leaders_to_follow |-> 10, performance_lookback_days |-> 30]

\* if not 0 <= v <= 1: raise ValueError.  TRUE: the value is returned.
validate_percentage(v) == ~ ~(0 <= v /\ v <= 100)

\* if v < 0 or v > 1000: raise ValueError
validate_slippage(v) == ~(v < 0 \/ v > 1000)

validate_follow_window_from_zero(v) == ~(v < 0 \/ v > 60)

\* if v < 1 or v > 60: raise ValueError
validate_follow_window(v) == ~(v < 1 \/ v > 60)

\* if v < 60 or v > 3600: raise ValueError
validate_update_interval(v) == ~(v < 60 \/ v > 3600)

\* if v < 1 or v > 50: raise ValueError
validate_max_leaders(v) == ~(v < 1 \/ v > 50)

\* if v < 1 or v > 365: raise ValueError
validate_lookback_days(v) == ~(v < 1 \/ v > 365)

\* The field_validator decorators: the validator each field is given to.
FieldValidates(f, v) ==
    CASE f \in {"max_daily_loss", "max_position_size", "max_total_exposure"} -> validate_percentage(v)
      [] f = "default_slippage_bps" -> validate_slippage(v)
      [] f = "follow_window_seconds" -> validate_follow_window(v)
      [] f = "leader_update_interval" -> validate_update_interval(v)
      [] f = "max_leaders_to_follow" -> validate_max_leaders(v)
      [] f = "performance_lookback_days" -> validate_lookback_days(v)

\* Values given for a field: the default, the two ends of a range and the
\* values next to them outside it.
Around(lo, d, hi) == {lo - 1, lo, d, hi, hi + 1}

ConfigInputs ==
    [max_daily_loss : Around(0, ConfigDefaults.max_daily_loss, 100),
     max_position_size : Around(0, ConfigDefaults.max_position_size, 100),
     max_total_exposure : Around(0, ConfigDefaults.max_total_exposure, 100),
     default_slippage_bps : Around(0, ConfigDefaults.default_slippage_bps, 1000),
     follow_window_seconds : Around(1, ConfigDefaults.follow_window_seconds, 60),
     leader_update_interval : Around(60, ConfigDefaults.leader_update_interval, 3600),
     max_leaders_to_follow : Around(1, ConfigDefaults.max_leaders_to_follow, 50),
     performance_lookback_days : Around(1, ConfigDefaults.performance_lookback_days, 365)]

NoConfig == [status |-> "none", errors |-> {}]

ConfigIdle ==
    /\ env = ConfigDefaults
    /\ config = NoConfig

ConfigInit ==
    /\ env \in ConfigInputs
    /\ config = NoConfig

\* Config(...): every validator runs on its field; the construction raises a
\* ValidationError that lists the fields whose validator raised, or returns
\* the Config.
ConfigConstruct ==
    /\ config.status = "none"
    /\ LET errors == {f \in ConfigFields : ~FieldValidates(f, env[f])}
       IN config' = [status |-> IF errors = {} THEN "constructed" ELSE "rejected",
                     errors |-> errors]
    /\ UNCHANGED <<env, orch_vars, retry_vars, data_vars, leader_vars, stream_vars>>

NextConfig ==
    \/ ConfigConstruct

vars == <<orch_vars, retry_vars, data_vars, leader_vars, stream_vars, config_vars>>

Init == OrchInit /\ RetryIdle /\ DataInit /\ LeadersIdle /\ StreamIdle /\ ConfigIdle
Spec == Init /\ [][Next]_vars
SpecStubs == Init /\ [][NextStubs]_vars
InitRetry == OrchInit /\ RetryInit /\ DataInit /\ LeadersIdle /\ StreamIdle /\ ConfigIdle
SpecRetry == InitRetry /\ [][NextRetry]_vars
SpecData == Init /\ [][NextData]_vars
InitLeaders == OrchInit /\ RetryIdle /\ DataInit /\ LeadersInit /\ StreamIdle /\ ConfigIdle
SpecLeaders == InitLeaders /\ [][NextLeaders]_vars
SpecStream == Init /\ [][NextStream]_vars
InitConfig == OrchInit /\ RetryIdle /\ DataInit /\ LeadersIdle /\ StreamIdle /\ ConfigInit
SpecConfig == InitConfig /\ [][NextConfig]_vars

\* ===================================================================
\* Claims
\* ===================================================================

\* C1: no signal is executed whose notional, added to the exposure of the
\* signals already executed, exceeds max_total_exposure: the exposure of the
\* executed signals never rises above max_total_exposure.
C1_ExposureWithinLimit == Exposure <= max_total_exposure

\* C2: once the account's daily loss exceeds max_daily_loss, no signal is
\* dispatched to execute_signal: every signal dispatched in the tick under way
\* was dispatched with the daily loss within max_daily_loss.
C2_NoDispatchAfterLoss ==
    \A i \in 1..Len(log) : Dispatched(log[i].outcome) => daily_loss <= max_daily_loss

\* C3: when check_limits() has returned false, the main loop has stopped: the
\* start() coroutine is in its finally clause or has returned, running is
\* cleared once it has returned, and no tick runs until start() is called again.
C3_HaltStopsLoop ==
    limit_hit => /\ pc \in {"finally", "returned"}
                 /\ (pc = "returned" => ~running)

C3_Witness == limit_hit /\ pc = "returned" /\ starts = 1

\* C4: every tick polls check_limits, and a tick fetches and processes signals
\* only after the poll of the tick before it returned true, also when a step of
\* that tick raised.
C4_TickAfterPoll ==
    pc \in {"rankings", "get_signals", "for", "metrics"} => polled # "missed"

\* C5: for every signal id at most one call of execute_signal ends in a
\* successful result over the whole run.
C5_AtMostOneFill == \A i \in SignalIds : fills[i] <= 1

\* C6: a signal whose age at dispatch exceeds follow_window_seconds is never
\* passed to execute_signal.
C6_NoStaleDispatch ==
    \A i \in 1..Len(log) :
        Dispatched(log[i].outcome) => log[i].signal.age <= follow_window_seconds

\* C7: within a tick the signals are processed one at a time in the order
\* get_signals returned them: while the for loop runs, the outcomes logged so
\* far are those of the first idx - 1 signals of the list, in the list's order.
C7_InOrder ==
    pc = "for" =>
        /\ Len(log) = idx - 1
        /\ Len(log) <= Len(signals)
        /\ \A i \in 1..Len(log) : log[i].signal = signals[i]

C7_Witness ==
    /\ pc = "for"
    /\ Len(log) = 2
    /\ log[1].signal # log[2].signal
    /\ log[1].outcome = "signal_executed"
    /\ log[2].outcome = "signal_executed"

\* C8: an operation wrapped by retry_on_api_error that fails with an error
\* is_retryable_error classifies as not retryable is not retried: no backoff
\* sleep follows the failure.
C8_FatalNotRetried ==
    (policy = retry_on_api_error /\ r_pc = "sleep") => is_retryable_error(last_exception)

\* C9: with max_retries = n >= 0 the wrapped function is invoked at most n + 1
\* times; a return ends the call with no further attempt; after the (n+1)-th
\* failure the last exception is raised with no further sleep or attempt.
C9_RetriesCapped ==
    policy.max_retries >= 0 =>
        /\ calls <= policy.max_retries + 1
        /\ Len(sleeps) <= policy.max_retries
        /\ (r_pc \in {"returned", "raised"} =>
               /\ Len(sleeps) = calls - 1
               /\ ~ENABLED (RetryCallReturns \/ RetryWake \/ \E e \in Errors : RetryCallRaises(e)))
        /\ (calls = policy.max_retries + 1 => r_pc \in {"returned", "raised"})
        /\ (r_pc = "raised" /\ Catches(policy.exceptions, r_raised) =>
               r_raised = last_exception)
        /\ (r_pc = "returned" => r_raised = NoError)

C9_Witness ==
    /\ policy.max_retries = 2
    /\ calls = 3
    /\ r_pc = "raised"
    /\ Len(sleeps) = 2
    /\ r_raised = last_exception

C11_DelayWithinCeiling ==
    /\ \A k \in 1..Len(sleeps) : sleeps[k] <= policy.max_delay
    /\ grd.called => grd.delay <= policy.max_delay * 4 * RandSteps

\* C12: within one DataClient fetch call, a failed request to the local node
\* is retried once on the local node at once, the public API is asked only
\* after that second failure, and nothing is asked after the public API.
C12_RetryPrimaryOnce ==
    op \in UserOps =>
        \A i \in 1..Len(trace) :
            trace[i].provider = "public" =>
                /\ i > 2
                /\ trace[i - 1] = [provider |-> "local", ok |-> FALSE, call |-> trace[i].call]
                /\ trace[i - 2] = [provider |-> "local", ok |-> FALSE, call |-> trace[i].call]
                /\ i = Len(trace)

\* C13: every attempt of a user-state, open-orders or fills fetch asks the
\* local node before the public API, whatever earlier calls and health_check
\* found: each invocation of the body starts with the local node, and the
\* public API is asked only right after the local node failed in that
\* invocation.
C13_PrimaryFirst ==
    op \in UserOps =>
        /\ \A i \in 1..Len(trace) :
              /\ (i = 1 \/ trace[i - 1].call # trace[i].call) => trace[i].provider = "local"
              /\ trace[i].provider = "public" =>
                    /\ i > 1
                    /\ trace[i - 1] = [provider |-> "local", ok |-> FALSE,
                                       call |-> trace[i].call]
        /\ (r_pc = "call" /\ f_pc = "public") =>
              /\ Len(trace) > 0
              /\ trace[Len(trace)] = [provider |-> "local", ok |-> FALSE, call |-> calls + 1]

C13_Witness ==
    /\ op \in UserOps
    /\ prev_failed
    /\ data_health.probed /\ ~data_health.local_up
    /\ Len(trace) >= 4
    /\ trace[Len(trace)].provider = "public"
    /\ trace[Len(trace)].call = 2

\* C14: for every DataClient operation, get_all_mids, get_meta and
\* get_l2_snapshot included, a failure of the provider asked first is followed
\* by a request to the public API in the same invocation, and the call raises
\* to its caller only when the public API has failed too.
C14_FailoverEveryOperation ==
    op # "none" =>
        /\ \A i \in 1..Len(trace) :
              (trace[i].provider # "public" /\ ~trace[i].ok) =>
                  IF i < Len(trace)
                  THEN trace[i + 1].provider = "public" /\ trace[i + 1].call = trace[i].call
                  ELSE r_pc = "call" /\ f_pc = "public"
        /\ r_pc = "raised" =>
              \E i \in 1..Len(trace) : trace[i].provider = "public" /\ ~trace[i].ok

\* C15: in get_multiple_leaders_data the failure of one leader's fetch never
\* makes the call raise and never removes or alters another leader's result:
\* the returned map holds exactly the leaders with a fetch that succeeded, each
\* with the data of its own fetch.
C15_LeadersIsolated ==
    /\ m_pc # "raised"
    /\ m_pc \in {"await", "returned"} =>
          /\ \A i \in 1..(m_idx - 1) :
                tasks[i].outcome = "ok" => tasks[i].address \in DOMAIN results
          /\ \A a \in DOMAIN results :
                /\ results[a].leader = a
                /\ results[a].task < m_idx
                /\ tasks[results[a].task].address = a
                /\ tasks[results[a].task].outcome = "ok"
    /\ m_pc = "returned" =>
          DOMAIN results = {tasks[i].address : i \in {j \in 1..Len(tasks) : tasks[j].outcome = "ok"}}

C15_Witness ==
    /\ m_pc = "returned"
    /\ Len(tasks) = 2
    /\ tasks[1].outcome = "fail"
    /\ tasks[2].outcome = "ok"
    /\ tasks[1].address # tasks[2].address
    /\ DOMAIN results = {tasks[2].address}

\* C16: when a leader's positions and open orders are the same in two
\* consecutive polls, or the leader's poll was skipped for want of data,
\* get_signals emits no signal of that leader in that tick.
C16_NoSignalWithoutChange ==
    emitted.called =>
        \A a \in Addresses :
            last_obs[a] \in {"same", "skipped"} =>
                \A i \in 1..Len(emitted.value) : LeaderOf[emitted.value[i].id] # a

C16_Witness ==
    /\ emitted.called
    /\ \E a, b \in Addresses : last_obs[a] = "same" /\ last_obs[b] = "skipped"

\* C17: after any sequence of update_rankings, add_leader, remove_leader and
\* update_leader_metrics calls, get_active_leaders returns no leader whose
\* address is in banned_leaders.
C17_NoBannedActive == active.called => active.value \cap banned_leaders = {}

C17_Witness ==
    /\ active.called
    /\ added \cap banned_leaders # {}
    /\ added \ banned_leaders # {}

\* C18: two successive calls of update_rankings by the main loop are at least
\* leader_update_interval seconds apart: when the loop is about to call it
\* again, at least that many seconds have been slept since the call before.
C18_RankingCadence ==
    (pc = "rankings" /\ since_rank >= 0) => since_rank >= leader_update_interval

\* The positions of the start() coroutine inside a tick of the main loop.
TickPcs == {"rankings", "get_signals", "for", "metrics", "check_limits"}

\* C19: after stop() has been requested, from the signal handler included, the
\* main loop runs no new tick, and the connections are not closed while a tick
\* (with its signal executions) is under way.
C19_ShutdownDrains ==
    /\ stop_requested => pc \notin TickPcs
    /\ conn = "closed" => pc \notin TickPcs

\* The outcomes _process_signal logs for a signal it has processed without an
\* exception.
DecidedOutcomes ==
    {"invalid_signal", "signal_blocked_by_risk", "signal_executed", "signal_execution_failed"}

\* C20 as stated: every signal get_signals returned in a tick reaches exactly
\* one logged outcome among invalid, blocked by risk, executed and execution
\* failed, also when the processing of an earlier signal raised.
C20_FourOutcomes ==
    /\ pc \notin {"for", "get_signals"} => signals = << >>
    /\ pc = "for" =>
          /\ Len(log) = idx - 1
          /\ \A i \in 1..Len(log) :
                log[i].signal = signals[i] /\ log[i].outcome \in DecidedOutcomes

\* C20 amended: every signal get_signals returned in a tick reaches exactly one
\* logged outcome among invalid, blocked by risk, executed, execution failed
\* and processing failed, and the for loop is left only once every signal of
\* the list has its outcome, also when the processing of an earlier signal
\* raised.
C20_EverySignalLogged ==
    /\ pc \notin {"for", "get_signals"} => signals = << >>
    /\ pc = "for" =>
          /\ Len(log) = idx - 1
          /\ \A i \in 1..Len(log) :
                /\ log[i].signal = signals[i]
                /\ log[i].outcome \in DecidedOutcomes \cup {"signal_processing_failed"}

C20_Witness ==
    /\ pc = "for"
    /\ idx > Len(signals)
    /\ Len(log) = 2
    /\ log[1].outcome = "signal_processing_failed"
    /\ log[2].outcome \in DecidedOutcomes

\* C21: an exception raised in a step of a tick never ends the main loop: the
\* loop is left, for the finally clause of start(), only when check_limits()
\* has returned false or running has been cleared by stop().
C21_FailuresContained == pc = "finally" => (limit_hit \/ ~running)

C21_Witness ==
    /\ polled = "missed"
    /\ pc = "for"
    /\ running
    /\ Len(log) > 0
    /\ log[1].outcome = "signal_processing_failed"

\* C22: when the probes of the local node, the public API and the SDK all
\* fail, health_check returns unhealthy and start() returns without running a
\* tick of the main loop: the bot is not running and start() is in its finally
\* clause or has returned.
C22_NoSourceStops == no_source => (~running /\ pc \in {"finally", "returned"})

\* C23: DataClient.health_check reports local_node and public_api as true
\* exactly when the provider's probe request of this call succeeded.
C23_ProbeReported ==
    data_health.probed =>
        /\ data_health.local_node = data_health.local_up
        /\ data_health.public_api = data_health.public_up

\* C26: whenever start() has returned or raised after storage.initialize()
\* succeeded, storage.close() and data_client.close() have been called and
\* have completed: the connections are closed.
C26_ClosedOnReturn == pc = "returned" => conn = "closed"

\* C30: for every max_retries, negative values included, a finished call of
\* the wrapper has invoked the function at least once, and an exception it
\* raises is one the function raised.
C30_CalledAtLeastOnce ==
    r_pc \in {"returned", "raised"} =>
        /\ calls >= 1
        /\ r_pc = "raised" => r_raised \in Errors

\* C27: once DataClient.close() has completed, neither LocalNodeClient nor
\* PublicAPIClient holds an open HTTP session, whatever requests were in
\* flight or waiting in a retry backoff when it ran.
C27_NoSessionAfterClose == client_closed => sessions = {}

\* C29: leader data is all-or-nothing: an entry of the results of
\* get_multiple_leaders_data comes from a get_leader_data task that returned
\* and holds user_state, open_orders and fills, all three fetched by that
\* task; a leader whose awaited tasks all failed has no entry.
C29_AllOrNothing ==
    m_pc \in {"await", "returned"} =>
        /\ \A a \in DOMAIN results :
              /\ results[a].parts = {Parts[k] : k \in 1..Len(Parts)}
              /\ results[a].parts = tasks[results[a].task].fetched
              /\ tasks[results[a].task].outcome = "ok"
        /\ \A a \in Addresses :
              (\A i \in 1..(m_idx - 1) : tasks[i].address = a => tasks[i].outcome = "fail")
                  => a \notin DOMAIN results

C29_Witness ==
    /\ m_pc = "returned"
    /\ Len(tasks) = 2
    /\ tasks[1].outcome = "fail"
    /\ tasks[1].fetched = {"user_state", "open_orders"}
    /\ tasks[2].outcome = "ok"
    /\ DOMAIN results = {tasks[2].address}
    /\ tasks[1].address \notin DOMAIN results

\* C24: the streamer reconnects on drop: the loop of start() never calls
\* receive_messages on a connection that has dropped without connecting again
\* first.
C24_ReconnectsOnDrop == ~stale_receive

\* C28: after stop() has completed the streamer holds no open WebSocket
\* connection and opens none, whatever start() was waiting for when stop()
\* ran.
C28_NoConnectionAfterStop == s_stopped => websocket # "open"

\* C25: the construction of a Config is rejected exactly when a field lies
\* outside its range: the three percentages outside [0, 1], the slippage
\* outside [0, 1000], the follow window outside [1, 60], the update interval
\* outside [60, 3600], the number of leaders outside [1, 50], the lookback
\* outside [1, 365]; so a constructed Config satisfies every range and the
\* ends of each range are accepted.
C25_RangesEnforced ==
    LET inside ==
            /\ \A f \in {"max_daily_loss", "max_position_size", "max_total_exposure"} :
                  env[f] \in 0..100
            /\ env.default_slippage_bps \in 0..1000
            /\ env.follow_window_seconds \in 1..60
            /\ env.leader_update_interval \in 60..3600
            /\ env.max_leaders_to_follow \in 1..50
            /\ env.performance_lookback_days \in 1..365
    IN config.status # "none" => (config.status = "constructed" <=> inside)

C25_Witness ==
    /\ config.status = "constructed"
    /\ env.max_daily_loss = 0
    /\ env.max_position_size = 100
    /\ env.max_total_exposure = 100
    /\ env.default_slippage_bps = 1000
    /\ env.follow_window_seconds = 1
    /\ env.leader_update_interval = 3600
    /\ env.max_leaders_to_follow = 50
    /\ env.performance_lookback_days = 1

====
